---------------------------- MODULE Spec2Model ----------------------------
(***************************************************************************)
(* A model of the ingestion package of VLM-humor:                          *)
(*   src/src/ingestion/email_parser.py    EmailParser, extract_fantasy_    *)
(*                                        threads, group_by_thread         *)
(*   src/src/ingestion/evernote_parser.py HTMLTextExtractor,               *)
(*                                        EvernoteParser                   *)
(*                                                                         *)
(* Text is modelled as a sequence of one-character strings, so that the    *)
(* regular expressions, str.strip, str.split and str.lower of the source   *)
(* are computed character by character.  An optional value (None or a      *)
(* value v) is the empty sequence or the one-element sequence <<v>>.       *)
(*                                                                         *)
(* The package is a set of independent operations; each has its own        *)
(* specification (SpecClean, SpecHtml, SpecMsg, SpecFilter, SpecGroup)     *)
(* over its own variables, the others' variables staying idle.             *)
(***************************************************************************)
EXTENDS Integers, Sequences, FiniteSets, TLC

VARIABLES
    \* EmailParser._clean_body
    strip_quotes, strip_signatures, lines, line_no, cleaned_lines, text, clean_pc,
    \* HTMLTextExtractor / EvernoteParser._parse_note_element
    fed, text_parts, _skip_data, cdata_elem, min_content_length, note, html_pc,
    \* EmailParser.parse_mbox / _parse_message
    min_body_length, mbox_read, parsed_emails, mbox_pc,
    \* extract_fantasy_threads
    league_domains, subject_keywords, emails_read, yielded, filter_pc,
    \* group_by_thread
    emails, email_no, threads, group_pc

cleanVars  == <<strip_quotes, strip_signatures, lines, line_no, cleaned_lines, text, clean_pc>>
htmlVars   == <<fed, text_parts, _skip_data, cdata_elem, min_content_length, note, html_pc>>
msgVars    == <<min_body_length, mbox_read, parsed_emails, mbox_pc>>
filterVars == <<league_domains, subject_keywords, emails_read, yielded, filter_pc>>
groupVars  == <<emails, email_no, threads, group_pc>>
vars       == <<cleanVars, htmlVars, msgVars, filterVars, groupVars>>

-----------------------------------------------------------------------------
(* Optional values and text.                                               *)

None == <<>>

Some(v) == <<v>>

\* Python truthiness of an optional text: neither None nor the empty string.
Truthy(o) == o # None /\ o[1] # <<>>

NL == "\n"

\* The characters str.strip() removes and the regular expression \s matches.
Whitespace == {" ", "\t", "\n", "\r"}

UpperCase == <<"A","B","C","D","E","F","G","H","I","J","K","L","M",
               "N","O","P","Q","R","S","T","U","V","W","X","Y","Z">>

LowerCase == <<"a","b","c","d","e","f","g","h","i","j","k","l","m",
               "n","o","p","q","r","s","t","u","v","w","x","y","z">>

\* str.lower() on one character.
LowerChar(c) ==
    IF \E k \in 1..Len(UpperCase) : UpperCase[k] = c
    THEN LowerCase[CHOOSE k \in 1..Len(UpperCase) : UpperCase[k] = c]
    ELSE c

\* str.lower()
Lower(s) == [k \in 1..Len(s) |-> LowerChar(s[k])]

\* s[from:] of Python, 1-based: the suffix of s that starts at position from.
Drop(s, n) == SubSeq(s, n + 1, Len(s))

\* The length of the longest prefix of s made of whitespace.
WsPrefixLen(s) ==
    IF \E k \in 1..Len(s) : s[k] \notin Whitespace
    THEN (CHOOSE k \in 1..Len(s) :
              s[k] \notin Whitespace /\ \A j \in 1..(k - 1) : s[j] \in Whitespace) - 1
    ELSE Len(s)

\* The length of the longest suffix of s made of whitespace.
WsSuffixLen(s) ==
    IF \E k \in 1..Len(s) : s[k] \notin Whitespace
    THEN Len(s) - (CHOOSE k \in 1..Len(s) :
              s[k] \notin Whitespace /\ \A j \in (k + 1)..Len(s) : s[j] \in Whitespace)
    ELSE Len(s)

\* str.strip()
Strip(s) ==
    IF WsPrefixLen(s) = Len(s) THEN <<>>
    ELSE SubSeq(s, WsPrefixLen(s) + 1, Len(s) - WsSuffixLen(s))

\* str.startswith(p)
StartsWith(s, p) == Len(s) >= Len(p) /\ SubSeq(s, 1, Len(p)) = p

\* p in s, for texts
IsSubstring(p, s) ==
    \E k \in 0..(Len(s) - Len(p)) : SubSeq(s, k + 1, k + Len(p)) = p

RECURSIVE Join(_, _)
\* sep.join(parts)
Join(parts, sep) ==
    IF parts = <<>> THEN <<>>
    ELSE IF Len(parts) = 1 THEN parts[1]
    ELSE parts[1] \o sep \o Join(Tail(parts), sep)

RECURSIVE SplitOn(_, _)
\* s.split(c) for a one-character separator c: always at least one piece.
SplitOn(s, c) ==
    IF \E k \in 1..Len(s) : s[k] = c
    THEN LET k == CHOOSE k \in 1..Len(s) : s[k] = c /\ \A j \in 1..(k - 1) : s[j] # c
         IN  <<SubSeq(s, 1, k - 1)>> \o SplitOn(Drop(s, k), c)
    ELSE <<s>>

RECURSIVE SubSpaces(_)
\* re.sub(r' +', ' ', s)
SubSpaces(s) ==
    IF s = <<>> THEN <<>>
    ELSE IF Head(s) = " " /\ Len(s) >= 2 /\ s[2] = " " THEN SubSpaces(Tail(s))
    ELSE <<Head(s)>> \o SubSpaces(Tail(s))

\* The positions of the line feeds in the longest whitespace prefix of s.
NlInWsPrefix(s) == {k \in 1..WsPrefixLen(s) : s[k] = NL}

Max(S) == CHOOSE m \in S : \A k \in S : k <= m

Min(S) == CHOOSE m \in S : \A k \in S : m <= k

RECURSIVE SubBlankRuns(_, _)
\* re.sub(r'\n\s*\n' ... r'\n', '\n\n', s) where the pattern holds n line feeds
\* with \s* between them: scanning from the left, a match starts at a line feed
\* whose whitespace run holds at least n line feeds and (\s* being greedy) ends
\* at the last line feed of that run.
SubBlankRuns(s, n) ==
    IF s = <<>> THEN <<>>
    ELSE IF Head(s) = NL /\ Cardinality(NlInWsPrefix(s)) >= n
         THEN <<NL, NL>> \o SubBlankRuns(Drop(s, Max(NlInWsPrefix(s))), n)
         ELSE <<Head(s)>> \o SubBlankRuns(Tail(s), n)

-----------------------------------------------------------------------------
(* EmailParser._clean_body                                                 *)

\* A mutant of IsQuoted: the line is not stripped before the test.
IsQuotedUnstripped(line) == StartsWith(line, <<">">>)

\* Line 134: line.strip().startswith('>')
IsQuoted(line) == StartsWith(Strip(line), <<">">>)

\* The tuple of line 139.  Its second entry is three non-ASCII characters
\* (written here by their code points) and a space, as in the source.
SignatureDelimiters ==
    { <<"-","-">>, <<"U+00E2","U+20AC","U+201D"," ">>, <<"-","-","-">>,
      <<"_","_","_","_">> }

SignaturePrefixes ==
    { <<"s","e","n","t"," ","f","r","o","m">>,
      <<"g","e","t"," ","o","u","t","l","o","o","k">>,
      <<"s","e","n","t"," ","v","i","a">> }

\* Lines 139-142: the line starts a signature.
IsSignature(line) ==
    \/ Strip(line) \in SignatureDelimiters
    \/ \E p \in SignaturePrefixes : StartsWith(Lower(Strip(line)), p)

\* A mutant of LineVerdict: a signature line is passed over (continue) and
\* the loop goes on.
LineVerdictContinue(line, sq, ss) ==
    IF sq /\ IsQuoted(line) THEN "skip"
    ELSE IF ss /\ IsSignature(line) THEN "skip"
    ELSE "keep"

\* One turn of the loop of lines 132-144 on a line: "skip" (continue),
\* "break", or "keep" (append).
LineVerdict(line, sq, ss) ==
    IF sq /\ IsQuoted(line) THEN "skip"
    ELSE IF ss /\ IsSignature(line) THEN "break"
    ELSE "keep"

\* Lines 146-152: join, normalise whitespace, strip.
FinishBody(kept) == Strip(SubSpaces(SubBlankRuns(Join(kept, <<NL>>), 3)))

RECURSIVE CleanLoop(_, _, _, _)
\* The loop of lines 132-144 run to its end from line n with `kept` collected.
CleanLoop(ls, n, kept, cfg) ==
    IF n > Len(ls) THEN kept
    ELSE LET v == LineVerdict(ls[n], cfg.strip_quotes, cfg.strip_signatures)
         IN  IF v = "break" THEN kept
             ELSE CleanLoop(ls, n + 1, IF v = "keep" THEN Append(kept, ls[n]) ELSE kept, cfg)

\* _clean_body(body), for a parser configured by cfg.
_clean_body(body, cfg) == FinishBody(CleanLoop(SplitOn(body, NL), 1, <<>>, cfg))


-----------------------------------------------------------------------------
(* Bounds and input pools.                                                 *)

\* The longest body, in lines, given to _clean_body.
MaxLines == 3

\* The lines a body is made of: blank and whitespace-only lines, quoted
\* replies (with and without leading whitespace, with a run of spaces),
\* signature delimiters (bare, and with the trailing space of "-- "),
\* a mail-client line in mixed case, and ordinary text.
LinePool ==
    { <<>>,
      <<"\t">>,
      <<">"," ","q">>,
      <<" ",">"," "," ","q">>,
      <<"-","-">>,
      <<"-","-"," ">>,
      <<"S","E","N","T"," ","v","i","a"," ","x">>,
      <<"h","i"," "," ","x">> }

SeqsUpTo(S, n) == UNION {[1..k -> S] : k \in 0..n}

-----------------------------------------------------------------------------
(* The variables of an operation that is not running.                      *)

CleanIdle ==
    /\ strip_quotes = TRUE /\ strip_signatures = TRUE
    /\ lines = <<>> /\ line_no = 0 /\ cleaned_lines = <<>> /\ text = <<>>
    /\ clean_pc = "idle"

HtmlIdle ==
    /\ fed = <<>> /\ text_parts = <<>> /\ _skip_data = FALSE /\ cdata_elem = None
    /\ min_content_length = 0 /\ note = None /\ html_pc = "idle"

MsgIdle ==
    /\ min_body_length = 0 /\ mbox_read = <<>> /\ parsed_emails = <<>>
    /\ mbox_pc = "idle"

FilterIdle ==
    /\ league_domains = None /\ subject_keywords = None
    /\ emails_read = <<>> /\ yielded = <<>> /\ filter_pc = "idle"

GroupIdle ==
    /\ emails = <<>> /\ email_no = 0 /\ threads = <<>> /\ group_pc = "idle"

-----------------------------------------------------------------------------
(* SpecClean: one call of EmailParser._clean_body, a turn of its loop per  *)
(* step.                                                                   *)

\* A parser built by __init__ (lines 72-74) and line 129 of a call of
\* _clean_body: lines = body.split('\n').
CleanInit ==
    /\ strip_quotes \in BOOLEAN
    /\ strip_signatures \in BOOLEAN
    /\ \E ls \in SeqsUpTo(LinePool, MaxLines) :
           /\ ls # <<>>
           /\ lines = SplitOn(Join(ls, <<NL>>), NL)
    /\ line_no = 1
    /\ cleaned_lines = <<>>
    /\ text = <<>>
    /\ clean_pc = "loop"
    /\ HtmlIdle /\ MsgIdle /\ FilterIdle /\ GroupIdle

CleanVerdict ==
    LineVerdict(lines[line_no], strip_quotes, strip_signatures)

\* Lines 134-135: a quoted line is passed over.
SkipQuoted ==
    /\ clean_pc = "loop" /\ line_no <= Len(lines)
    /\ CleanVerdict = "skip"
    /\ line_no' = line_no + 1
    /\ UNCHANGED <<strip_quotes, strip_signatures, lines, cleaned_lines, text, clean_pc>>
    /\ UNCHANGED <<htmlVars, msgVars, filterVars, groupVars>>

\* Lines 138-142: a signature line ends the loop.
SignatureBreak ==
    /\ clean_pc = "loop" /\ line_no <= Len(lines)
    /\ CleanVerdict = "break"
    /\ clean_pc' = "join"
    /\ UNCHANGED <<strip_quotes, strip_signatures, lines, line_no, cleaned_lines, text>>
    /\ UNCHANGED <<htmlVars, msgVars, filterVars, groupVars>>

\* Line 144: the line is collected.
KeepLine ==
    /\ clean_pc = "loop" /\ line_no <= Len(lines)
    /\ CleanVerdict = "keep"
    /\ cleaned_lines' = Append(cleaned_lines, lines[line_no])
    /\ line_no' = line_no + 1
    /\ UNCHANGED <<strip_quotes, strip_signatures, lines, text, clean_pc>>
    /\ UNCHANGED <<htmlVars, msgVars, filterVars, groupVars>>

\* Line 132: the lines are exhausted.
LoopEnd ==
    /\ clean_pc = "loop" /\ line_no > Len(lines)
    /\ clean_pc' = "join"
    /\ UNCHANGED <<strip_quotes, strip_signatures, lines, line_no, cleaned_lines, text>>
    /\ UNCHANGED <<htmlVars, msgVars, filterVars, groupVars>>

\* Lines 146-152: the cleaned body is returned.
ReturnBody ==
    /\ clean_pc = "join"
    /\ text' = FinishBody(cleaned_lines)
    /\ clean_pc' = "done"
    /\ UNCHANGED <<strip_quotes, strip_signatures, lines, line_no, cleaned_lines>>
    /\ UNCHANGED <<htmlVars, msgVars, filterVars, groupVars>>

CleanNext ==
    \/ SkipQuoted
    \/ SignatureBreak
    \/ KeepLine
    \/ LoopEnd
    \/ ReturnBody

SpecClean == CleanInit /\ [][CleanNext]_vars

-----------------------------------------------------------------------------
(* Claims about _clean_body.                                               *)

\* The lines of the cleaned body.
OutputLines == SplitOn(text, NL)

RECURSIVE Trimmed(_)
\* The trimmed form of a line: no whitespace at either end.
Trimmed(line) ==
    IF line # <<>> /\ Head(line) \in Whitespace THEN Trimmed(Tail(line))
    ELSE IF line # <<>> /\ line[Len(line)] \in Whitespace
         THEN Trimmed(SubSeq(line, 1, Len(line) - 1))
         ELSE line

\* A line whose trimmed form starts with '>'.
QuotedLine(line) == Trimmed(line) # <<>> /\ Trimmed(line)[1] = ">"

\* A signature line as the specification describes it: its trimmed form is
\* one of the delimiters, or begins (in any case) with a mail-client phrase.
DelimiterLine(line) ==
    \/ Trimmed(line) \in {<<"-","-">>, <<"-","-","-">>, <<"_","_","_","_">>}
    \/ \E p \in SignaturePrefixes :
           /\ Len(Trimmed(line)) >= Len(p)
           /\ \A k \in 1..Len(p) : LowerChar(Trimmed(line)[k]) = p[k]

\* The number of the first signature line, or one past the last line.
FirstDelimiter ==
    IF \E k \in 1..Len(lines) : DelimiterLine(lines[k])
    THEN Min({k \in 1..Len(lines) : DelimiterLine(lines[k])})
    ELSE Len(lines) + 1

\* An input line is present in the cleaned body, up to the whitespace
\* normalisation of lines 149-152.
Present(line) ==
    \E k \in 1..Len(OutputLines) : Trimmed(OutputLines[k]) = Trimmed(SubSpaces(line))

NoQuotedOutput == \A k \in 1..Len(OutputLines) : ~QuotedLine(OutputLines[k])

\* C4 as stated: with strip_quotes no quoted line is in the output; without
\* it every quoted line of the input is in the output, whatever
\* strip_signatures is and wherever the line sits.
C4_Original ==
    clean_pc = "done" =>
        /\ strip_quotes => NoQuotedOutput
        /\ ~strip_quotes =>
               \A k \in 1..Len(lines) : QuotedLine(lines[k]) => Present(lines[k])

\* C4 (amended): with strip_quotes no line whose trimmed form starts with '>'
\* is in the cleaned output; without it every such input line that the
\* signature cut-off does not discard (strip_signatures is off, or no
\* signature line precedes it) is in the cleaned output.
C4_QuotedLines ==
    clean_pc = "done" =>
        /\ strip_quotes => NoQuotedOutput
        /\ ~strip_quotes =>
               \A k \in 1..Len(lines) :
                   /\ QuotedLine(lines[k])
                   /\ (~strip_signatures \/ k < FirstDelimiter)
                   => Present(lines[k])

\* A finished call without strip_quotes on a body with a quoted line before
\* and another after its first signature line.
C4_Witness ==
    /\ clean_pc = "done" /\ ~strip_quotes /\ strip_signatures
    /\ \E j, k \in 1..Len(lines) :
           /\ j < FirstDelimiter /\ FirstDelimiter < k
           /\ QuotedLine(lines[j]) /\ QuotedLine(lines[k])
           /\ Present(lines[j])

\* Whether the loop collects a line it passes.
Collected(line) == ~(strip_quotes /\ QuotedLine(line))

\* C5: with strip_signatures, at every point of the loop the collected lines
\* are exactly the collectable lines passed so far that precede the first
\* signature line (nothing is collected from that line on), and the cleaned
\* body is built from those lines alone.
C5_SignatureCutoff ==
    strip_signatures /\ clean_pc # "idle" =>
        /\ cleaned_lines =
               SelectSeq(SubSeq(lines, 1, Min({line_no, FirstDelimiter}) - 1), Collected)
        /\ clean_pc = "done" =>
               text = FinishBody(SelectSeq(SubSeq(lines, 1, FirstDelimiter - 1), Collected))

\* A finished call with strip_signatures on a body whose first signature line
\* has collected lines before it and an ordinary line after it.
C5_Witness ==
    /\ clean_pc = "done" /\ strip_signatures
    /\ 1 < FirstDelimiter /\ FirstDelimiter < Len(lines)
    /\ cleaned_lines # <<>>
    /\ text # <<>>
    /\ \E k \in (FirstDelimiter + 1)..Len(lines) :
           ~QuotedLine(lines[k]) /\ ~DelimiterLine(lines[k]) /\ Trimmed(lines[k]) # <<>>

-----------------------------------------------------------------------------
(* SpecHtml: EvernoteParser._parse_note_element on one note, an event of   *)
(* HTMLTextExtractor per step.                                             *)

\* The most events one content of a note produces.
MaxEvents == 4

\* The largest min_content_length a parser is configured with.
MaxMinContent == 3

\* Line 24.
SkipTags == {"style", "script", "head", "meta"}

\* Line 29.
BlockTags == {"p", "div", "br", "li", "tr"}

\* The tags of the contents: the skip-tags, a block tag and an inline tag.
TagPool == SkipTags \cup {"p", "b"}

\* The character data of the contents.
DataPool == { <<"x">>, <<"y"," "," ","z">> }

\* HTMLParser delivers the content of a script or style element as data:
\* inside one, the only tag event is its own end tag.
CdataTags == {"script", "style"}

\* EvernoteParser.__init__ (line 84), a note whose content is about to be
\* fed to a new HTMLTextExtractor (lines 20-24, 97).
HtmlInit ==
    /\ min_content_length \in 0..MaxMinContent
    /\ fed = <<>>
    /\ text_parts = <<>>
    /\ _skip_data = FALSE
    /\ cdata_elem = None
    /\ note = None
    /\ html_pc = "feed"
    /\ CleanIdle /\ MsgIdle /\ FilterIdle /\ GroupIdle

StartEvent(tag) == [kind |-> "start", arg |-> tag]

EndEvent(tag) == [kind |-> "end", arg |-> tag]

DataEvent(data) == [kind |-> "data", arg |-> data]

\* Lines 26-30.
handle_starttag(tag) ==
    /\ html_pc = "feed" /\ Len(fed) < MaxEvents
    /\ cdata_elem = None
    /\ fed' = Append(fed, StartEvent(tag))
    /\ IF tag \in SkipTags
       THEN _skip_data' = TRUE /\ text_parts' = text_parts
       ELSE IF tag \in BlockTags
            THEN text_parts' = Append(text_parts, <<NL>>) /\ _skip_data' = _skip_data
            ELSE UNCHANGED <<text_parts, _skip_data>>
    /\ cdata_elem' = IF tag \in CdataTags THEN Some(tag) ELSE None
    /\ UNCHANGED <<min_content_length, note, html_pc>>
    /\ UNCHANGED <<cleanVars, msgVars, filterVars, groupVars>>

\* Lines 32-34.
handle_endtag(tag) ==
    /\ html_pc = "feed" /\ Len(fed) < MaxEvents
    /\ cdata_elem \in {None, Some(tag)}
    /\ fed' = Append(fed, EndEvent(tag))
    /\ _skip_data' = IF tag \in SkipTags THEN FALSE ELSE _skip_data
    /\ cdata_elem' = None
    /\ UNCHANGED <<text_parts, min_content_length, note, html_pc>>
    /\ UNCHANGED <<cleanVars, msgVars, filterVars, groupVars>>

\* Lines 36-38.
handle_data(data) ==
    /\ html_pc = "feed" /\ Len(fed) < MaxEvents
    /\ fed' = Append(fed, DataEvent(data))
    /\ text_parts' = IF ~_skip_data THEN Append(text_parts, data) ELSE text_parts
    /\ UNCHANGED <<_skip_data, cdata_elem, min_content_length, note, html_pc>>
    /\ UNCHANGED <<cleanVars, msgVars, filterVars, groupVars>>

\* Lines 40-45.
get_text(parts) == Strip(SubSpaces(SubBlankRuns(Join(parts, <<>>), 2)))

\* Lines 111-117 of _parse_note_element, the content fed: a note with no
\* content, or with extracted content shorter than the minimum, gives None.
NoteOf(parts, events, minimum) ==
    IF events = <<>> THEN None
    ELSE IF Len(get_text(parts)) < minimum THEN None
    ELSE Some(get_text(parts))

_parse_note_element ==
    /\ html_pc = "feed"
    /\ note' = NoteOf(text_parts, fed, min_content_length)
    /\ html_pc' = "done"
    /\ UNCHANGED <<fed, text_parts, _skip_data, cdata_elem, min_content_length>>
    /\ UNCHANGED <<cleanVars, msgVars, filterVars, groupVars>>

HtmlNext ==
    \/ \E tag \in TagPool : handle_starttag(tag)
    \/ \E tag \in TagPool : handle_endtag(tag)
    \/ \E data \in DataPool : handle_data(data)
    \/ _parse_note_element

SpecHtml == HtmlInit /\ [][HtmlNext]_vars

-----------------------------------------------------------------------------
(* Claims about HTMLTextExtractor.                                         *)

RECURSIVE OpenDepth(_, _)
\* How many elements `tag` are open after the events: a start tag opens one,
\* an end tag closes the innermost open one.
OpenDepth(events, tag) ==
    IF events = <<>> THEN 0
    ELSE LET before == OpenDepth(SubSeq(events, 1, Len(events) - 1), tag)
             last == events[Len(events)]
         IN  IF last = StartEvent(tag) THEN before + 1
             ELSE IF last = EndEvent(tag) /\ before > 0 THEN before - 1
             ELSE before

\* The skip-tags started and not yet closed.
OpenSkipTags(events) == {tag \in SkipTags : OpenDepth(events, tag) > 0}

\* C3: character data that arrives while a skip-tag is still open is never
\* appended to the text buffer.
C3_SkippedData ==
    [][ /\ Len(fed') = Len(fed) + 1
        /\ fed'[Len(fed')].kind = "data"
        /\ OpenSkipTags(fed) # {}
        => text_parts' = text_parts ]_vars

-----------------------------------------------------------------------------
(* SpecMsg: EmailParser.parse_mbox over an archive, a message per step.    *)
(* A message is its Thread-Index and References headers (None when the     *)
(* header is missing) and its decoded text/plain payload; a ParsedEmail is *)
(* its body and thread_id (the other fields are copied from headers that   *)
(* no claim reads).                                                        *)

\* The most messages an archive holds.
MaxMsgs == 2

\* The largest min_body_length a parser is configured with.
MaxMinBody == 3

\* Thread-Index: missing, empty, or a value.
ThreadIndexPool == { None, Some(<<>>), Some(<<"T","I">>) }

\* References: missing, empty, a folded header holding only whitespace,
\* one message id after a space, two message ids.
ReferencesPool ==
    { None,
      Some(<<>>),
      Some(<<"\n"," ">>),
      Some(<<" ","<","a",">">>),
      Some(<<"<","a",">"," ","<","b",">">>) }

\* Payloads whose cleaned bodies are 0, 2 and 3 characters long.
PayloadPool ==
    { <<">","q">>,
      <<"h","i",NL,">"," ","q">>,
      <<"a","b","c">>,
      <<"a","b","c",NL,"-","-",NL,"x","x">> }

MessagePool ==
    [thread_index : ThreadIndexPool, references : ReferencesPool, payload : PayloadPool]

RECURSIVE Tokens(_)
\* s.split(): the whitespace-delimited tokens of s.
Tokens(s) ==
    IF WsPrefixLen(s) = Len(s) THEN <<>>
    ELSE LET t == Drop(s, WsPrefixLen(s))
             n == IF \E k \in 1..Len(t) : t[k] \in Whitespace
                  THEN Min({k \in 1..Len(t) : t[k] \in Whitespace}) - 1
                  ELSE Len(t)
         IN  <<SubSeq(t, 1, n)>> \o Tokens(Drop(t, n))

\* Line 200:
\*   msg.get('Thread-Index') or msg.get('References', '').split()[0]
\*       if msg.get('References') else None
\* The conditional binds weaker than `or`: the References header decides
\* first.  [ok |-> FALSE] is the IndexError of [0] on an empty split.
ThreadIdOf(msg) ==
    IF Truthy(msg.references)
    THEN IF Truthy(msg.thread_index)
         THEN [ok |-> TRUE, value |-> msg.thread_index]
         ELSE IF Tokens(msg.references[1]) = <<>>
              THEN [ok |-> FALSE, value |-> None]
              ELSE [ok |-> TRUE, value |-> Some(Tokens(msg.references[1])[1])]
    ELSE [ok |-> TRUE, value |-> None]

\* The configuration of the parser (lines 72-74).
ParserConfig == [strip_quotes |-> strip_quotes, strip_signatures |-> strip_signatures]

\* Lines 94-125 for a single-part message: the cleaned payload.
_extract_body(msg, cfg) == _clean_body(msg.payload, cfg)

\* Line 189.
TooShort(body, minimum) == Len(body) < minimum

\* _parse_message (lines 167-201): "none" is return None, "raise" the
\* IndexError of line 200, "email" a ParsedEmail.
_parse_message(msg, cfg, minimum) ==
    LET body == _extract_body(msg, cfg)
    IN  IF TooShort(body, minimum) THEN [kind |-> "none"]
        ELSE IF ~ThreadIdOf(msg).ok THEN [kind |-> "raise"]
        ELSE [kind |-> "email", body |-> body, thread_id |-> ThreadIdOf(msg).value]

\* A parser built by __init__ with the default stripping (lines 62-74) and a
\* call of parse_mbox on an archive (line 232).
MsgInit ==
    /\ min_body_length \in 0..MaxMinBody
    /\ mbox_read = <<>>
    /\ parsed_emails = <<>>
    /\ mbox_pc = "iter"
    /\ CleanIdle /\ HtmlIdle /\ FilterIdle /\ GroupIdle

\* Lines 234-237 on a message that gives a record: it is yielded.
YieldParsed(msg) ==
    /\ mbox_pc = "iter" /\ Len(mbox_read) < MaxMsgs
    /\ _parse_message(msg, ParserConfig, min_body_length).kind = "email"
    /\ mbox_read' = Append(mbox_read, msg)
    /\ parsed_emails' =
           Append(parsed_emails,
                  [body |-> _parse_message(msg, ParserConfig, min_body_length).body,
                   thread_id |-> _parse_message(msg, ParserConfig, min_body_length).thread_id])
    /\ UNCHANGED <<min_body_length, mbox_pc>>
    /\ UNCHANGED <<cleanVars, htmlVars, filterVars, groupVars>>

\* Lines 234-237 on a message that gives None: it is passed over.
DropMessage(msg) ==
    /\ mbox_pc = "iter" /\ Len(mbox_read) < MaxMsgs
    /\ _parse_message(msg, ParserConfig, min_body_length).kind = "none"
    /\ mbox_read' = Append(mbox_read, msg)
    /\ UNCHANGED <<min_body_length, parsed_emails, mbox_pc>>
    /\ UNCHANGED <<cleanVars, htmlVars, filterVars, groupVars>>

\* Line 235 on a message for which _parse_message raises: nothing catches
\* the exception and the generator ends with it.
RaiseFromParse(msg) ==
    /\ mbox_pc = "iter" /\ Len(mbox_read) < MaxMsgs
    /\ _parse_message(msg, ParserConfig, min_body_length).kind = "raise"
    /\ mbox_read' = Append(mbox_read, msg)
    /\ mbox_pc' = "raised"
    /\ UNCHANGED <<min_body_length, parsed_emails>>
    /\ UNCHANGED <<cleanVars, htmlVars, filterVars, groupVars>>

\* Line 234: the archive is exhausted.
MboxEnd ==
    /\ mbox_pc = "iter"
    /\ mbox_pc' = "done"
    /\ UNCHANGED <<min_body_length, mbox_read, parsed_emails>>
    /\ UNCHANGED <<cleanVars, htmlVars, filterVars, groupVars>>

MsgNext ==
    \/ \E msg \in MessagePool : YieldParsed(msg)
    \/ \E msg \in MessagePool : DropMessage(msg)
    \/ \E msg \in MessagePool : RaiseFromParse(msg)
    \/ MboxEnd

SpecMsg == MsgInit /\ [][MsgNext]_vars

-----------------------------------------------------------------------------
(* Claims about _parse_message and parse_mbox.                             *)

\* The thread id the specification gives a message: Thread-Index if present,
\* else the first token of a present, non-empty References, else None.
SpecThreadId(msg) ==
    IF Truthy(msg.thread_index) THEN msg.thread_index
    ELSE IF Truthy(msg.references) /\ Tokens(msg.references[1]) # <<>>
         THEN Some(Tokens(msg.references[1])[1])
         ELSE None

\* C1: the thread_id of every record _parse_message yields is the
\* Thread-Index header if present (whether or not References is present),
\* else the first token of References if present and non-empty, else None.
C1_ThreadIdPriority ==
    [][ Len(parsed_emails') = Len(parsed_emails) + 1
        => parsed_emails'[Len(parsed_emails')].thread_id
               = SpecThreadId(mbox_read'[Len(mbox_read')]) ]_vars

\* The messages read whose cleaned body has at least the minimum length.
LongEnough(msg) == Len(_clean_body(msg.payload, ParserConfig)) >= min_body_length

\* C6: the records emitted are those of exactly the messages whose cleaned
\* body has at least min_body_length characters: a body of the minimum
\* length is emitted, a shorter one is dropped.
C6_MinimumLength ==
    mbox_pc # "idle" =>
        /\ Len(parsed_emails) = Len(SelectSeq(mbox_read, LongEnough))
        /\ \A k \in 1..Len(parsed_emails) :
               parsed_emails[k].body
                   = _clean_body(SelectSeq(mbox_read, LongEnough)[k].payload, ParserConfig)

\* C9: no message makes parse_mbox raise: each is emitted or dropped and
\* the iteration goes on.
C9_NeverRaises == mbox_pc # "raised"

-----------------------------------------------------------------------------
(* SpecFilter: extract_fantasy_threads over a sequence of ParsedEmail, a   *)
(* record per step.  A record is its sender and subject, the fields the    *)
(* filter reads; to_dict copies both into the mapping it returns.          *)

\* The most records the sequence holds.
MaxEmails == 2

\* Senders: an address, the same in another case, an address with two '@',
\* and a From value without an address.
SenderPool ==
    { <<"b","@","y">>,
      <<"b","@","Y">>,
      <<"a","@","e","@","y">>,
      <<"b","o","b">> }

\* Subjects: one with a default keyword in mixed case, one in upper case
\* with no default keyword, one in lower case, an empty one.
SubjectPool ==
    { <<"T","r","a","d","e","?">>,
      <<"S","N","O","W">>,
      <<"h","i">>,
      <<>> }

\* league_domains: not given, an empty list, lists of domains (one of them
\* the empty domain).
DomainsPool ==
    { None,
      Some(<<>>),
      Some(<< <<"y">> >>),
      Some(<< <<"e">>, <<"y">> >>),
      Some(<< <<>> >>) }

\* subject_keywords: not given, an empty list, lists of keywords.
KeywordsPool ==
    { None,
      Some(<<>>),
      Some(<< <<"s","n","o","w">> >>),
      Some(<< <<"x">>, <<"H","I">> >>) }

\* Lines 277-280: the default vocabulary.
DefaultKeywords ==
    << <<"f","a","n","t","a","s","y">>,
       <<"t","r","a","d","e">>,
       <<"w","a","i","v","e","r">>,
       <<"l","i","n","e","u","p">>,
       <<"m","a","t","c","h","u","p">>,
       <<"s","t","a","n","d","i","n","g","s">>,
       <<"d","r","a","f","t">>,
       <<"k","e","e","p","e","r">>,
       <<"r","o","s","t","e","r">>,
       <<"p","l","a","y","o","f","f","s">> >>

\* Python truthiness of an optional list: neither None nor empty.
TruthyList(o) == o # None /\ o[1] # <<>>

\* Lines 277-280: [k.lower() for k in (subject_keywords or [defaults])]
keywords_lower(keywords) ==
    LET chosen == IF TruthyList(keywords) THEN keywords[1] ELSE DefaultKeywords
    IN  [k \in 1..Len(chosen) |-> Lower(chosen[k])]

\* A mutant of sender_domain: what follows the first '@', up to the next.
sender_domain_first(sender) ==
    IF \E k \in 1..Len(sender) : sender[k] = "@"
    THEN SplitOn(sender, "@")[2]
    ELSE <<>>

\* Line 285: sender.split('@')[-1] if '@' in sender else ''
sender_domain(sender) ==
    IF \E k \in 1..Len(sender) : sender[k] = "@"
    THEN SplitOn(sender, "@")[Len(SplitOn(sender, "@"))]
    ELSE <<>>

\* Lines 284-287: the domain filter lets the record through.
PassesDomains(email, domains) ==
    TruthyList(domains) =>
        \E k \in 1..Len(domains[1]) : domains[1][k] = sender_domain(email.sender)

\* Lines 290-292: the keyword filter lets the record through.
PassesKeywords(email, keywords) ==
    ~ ( /\ TruthyList(keywords)
        /\ ~ \E k \in 1..Len(keywords_lower(keywords)) :
                 IsSubstring(keywords_lower(keywords)[k], Lower(email.subject)) )

\* ParsedEmail.to_dict (lines 32-42), for the fields modelled.
to_dict(email) == [subject |-> email.subject, sender |-> email.sender]

\* A call of extract_fantasy_threads (lines 261-265).
FilterInit ==
    /\ league_domains \in DomainsPool
    /\ subject_keywords \in KeywordsPool
    /\ emails_read = <<>>
    /\ yielded = <<>>
    /\ filter_pc = "iter"
    /\ CleanIdle /\ HtmlIdle /\ MsgIdle /\ GroupIdle

\* Lines 282-294 on a record both filters let through: it is yielded.
YieldEmail(email) ==
    /\ filter_pc = "iter" /\ Len(emails_read) < MaxEmails
    /\ PassesDomains(email, league_domains)
    /\ PassesKeywords(email, subject_keywords)
    /\ emails_read' = Append(emails_read, email)
    /\ yielded' = Append(yielded, to_dict(email))
    /\ UNCHANGED <<league_domains, subject_keywords, filter_pc>>
    /\ UNCHANGED <<cleanVars, htmlVars, msgVars, groupVars>>

\* Lines 284-287: the domain filter passes the record over.
SkipByDomain(email) ==
    /\ filter_pc = "iter" /\ Len(emails_read) < MaxEmails
    /\ ~PassesDomains(email, league_domains)
    /\ emails_read' = Append(emails_read, email)
    /\ UNCHANGED <<league_domains, subject_keywords, yielded, filter_pc>>
    /\ UNCHANGED <<cleanVars, htmlVars, msgVars, groupVars>>

\* Lines 290-292: the keyword filter passes the record over.
SkipByKeyword(email) ==
    /\ filter_pc = "iter" /\ Len(emails_read) < MaxEmails
    /\ PassesDomains(email, league_domains)
    /\ ~PassesKeywords(email, subject_keywords)
    /\ emails_read' = Append(emails_read, email)
    /\ UNCHANGED <<league_domains, subject_keywords, yielded, filter_pc>>
    /\ UNCHANGED <<cleanVars, htmlVars, msgVars, groupVars>>

\* Line 282: the sequence is exhausted.
FilterEnd ==
    /\ filter_pc = "iter"
    /\ filter_pc' = "done"
    /\ UNCHANGED <<league_domains, subject_keywords, emails_read, yielded>>
    /\ UNCHANGED <<cleanVars, htmlVars, msgVars, groupVars>>

EmailPool == [sender : SenderPool, subject : SubjectPool]

FilterNext ==
    \/ \E email \in EmailPool : YieldEmail(email)
    \/ \E email \in EmailPool : SkipByDomain(email)
    \/ \E email \in EmailPool : SkipByKeyword(email)
    \/ FilterEnd

SpecFilter == FilterInit /\ [][FilterNext]_vars

-----------------------------------------------------------------------------
(* Claims about extract_fantasy_threads.                                   *)

\* The sender's domain as the specification puts it: what follows the last
\* '@', or the empty string when there is none.
DomainAfterLastAt(sender) ==
    IF \E k \in 1..Len(sender) : sender[k] = "@"
    THEN Drop(sender, Max({k \in 1..Len(sender) : sender[k] = "@"}))
    ELSE <<>>

\* A requested domain is exactly the sender's domain.
DomainRequested(email, domains) ==
    \E k \in 1..Len(domains) : domains[k] = DomainAfterLastAt(email.sender)

\* A requested keyword is a case-insensitive substring of the subject.
KeywordMatches(email, keywords) ==
    \E k \in 1..Len(keywords) : IsSubstring(Lower(keywords[k]), Lower(email.subject))

\* The records of the input, in order, that the mail filter keeps, a filter
\* being "given" when it is not None.
KeptIfGivenMeansNotNone(email) ==
    /\ league_domains = None \/ DomainRequested(email, league_domains[1])
    /\ subject_keywords = None \/ KeywordMatches(email, subject_keywords[1])

\* The same, an empty list counting as no filter.
KeptIfGivenMeansNonEmpty(email) ==
    /\ ~TruthyList(league_domains) \/ DomainRequested(email, league_domains[1])
    /\ ~TruthyList(subject_keywords) \/ KeywordMatches(email, subject_keywords[1])

Mappings(records) == [k \in 1..Len(records) |-> to_dict(records[k])]

\* C7 as stated: the mappings yielded are, in input order, exactly those of
\* the records whose sender's domain is requested (or no domain filter is
\* given) and whose subject holds a requested keyword (or no keyword filter
\* is given).
C7_Original ==
    filter_pc # "idle" =>
        yielded = Mappings(SelectSeq(emails_read, KeptIfGivenMeansNotNone))

\* C7 (amended): the same, where a filter that is None or an empty list is
\* no filter.
C7_MailFilter ==
    filter_pc # "idle" =>
        yielded = Mappings(SelectSeq(emails_read, KeptIfGivenMeansNonEmpty))

\* Both filters given and non-empty; of two records one was passed over and
\* one, with two '@' in its sender and an upper-case subject, was kept.
C7_Witness ==
    /\ filter_pc = "done"
    /\ TruthyList(league_domains) /\ TruthyList(subject_keywords)
    /\ Len(emails_read) = 2 /\ Len(yielded) = 1
    /\ yielded[1].sender = <<"a","@","e","@","y">>
    /\ Lower(yielded[1].subject) # yielded[1].subject

\* C8: with subject_keywords None the default vocabulary is the keyword set
\* of the filter: every record yielded has a default keyword in its subject.
C8_DefaultKeywords ==
    subject_keywords = None /\ filter_pc # "idle" =>
        \A k \in 1..Len(yielded) :
            \E d \in 1..Len(DefaultKeywords) :
                IsSubstring(DefaultKeywords[d], Lower(yielded[k].subject))

-----------------------------------------------------------------------------
(* SpecGroup: group_by_thread on a list of mail mappings, a mapping per    *)
(* step of its first loop, then the sort of every thread.  A mapping is    *)
(* its thread_id, subject and date, the keys the function reads: each is   *)
(* None when the key is missing or null.                                   *)

\* The longest list given to group_by_thread.
MaxGroupEmails == 3

\* Dates as to_dict writes them (datetime.isoformat): the earliest date
\* there is, and two dates of one day with different UTC offsets.
Date0 == <<"0","0","0","1","-","0","1","-","0","1","T","0","0",":","0","0",":","0","0">>

Date1 == <<"2","0","2","4","-","0","1","-","0","1","T","0","9",":","0","0",":","0","0",
           "-","0","5",":","0","0">>

Date2 == <<"2","0","2","4","-","0","1","-","0","1","T","1","0",":","0","0",":","0","0",
           "+","0","0",":","0","0">>

ReTrade == <<"R","e",":"," ","T","r","a","d","e"," ","P","r","o","p","o","s","a","l">>

Trade == <<"T","r","a","d","e"," ","P","r","o","p","o","s","a","l">>

FwdTrade == <<"F","w","d",":"," ","t","r","a","d","e"," ","p","r","o","p","o","s","a","l">>

ReReX == <<"R","e",":"," ","R","e",":"," ","X">>

FwX == <<"f","W",":","\t"," ","X">>

\* A thread id that itself looks like a reply prefix.
ReT == <<"R","e",":","T">>

Mapping(tid, subject, date) == [thread_id |-> tid, subject |-> subject, date |-> date]

MappingPool ==
    { Mapping(None, Some(ReTrade), Some(Date2)),
      Mapping(None, Some(Trade), Some(Date1)),
      Mapping(None, Some(FwdTrade), None),
      Mapping(None, Some(ReReX), Some(Date1)),
      Mapping(None, Some(FwX), None),
      Mapping(None, None, Some(Date0)),
      Mapping(None, Some(<<>>), None),
      Mapping(Some(ReT), Some(ReTrade), Some(Date2)),
      Mapping(Some(ReT), Some(Trade), Some(Date1)),
      Mapping(Some(ReT), None, None),
      Mapping(Some(ReT), Some(ReReX), Some(Date0)),
      Mapping(Some(ReT), Some(FwX), Some(Date1)),
      Mapping(Some(ReT), Some(FwX), None) }

Unknown == <<"u","n","k","n","o","w","n">>

\* The alternatives of the regular expression of line 315, in its order.
ReplyPrefixes == << <<"r","e">>, <<"f","w","d">>, <<"f","w">> >>

\* re.sub(r'^(re|fwd|fw):\s*', '', s, flags=re.I): the pattern is anchored,
\* so at most the one match at the start is removed.
StripReplyPrefix(s) ==
    IF \E a \in 1..Len(ReplyPrefixes) :
           /\ Len(s) > Len(ReplyPrefixes[a])
           /\ Lower(SubSeq(s, 1, Len(ReplyPrefixes[a]))) = ReplyPrefixes[a]
           /\ s[Len(ReplyPrefixes[a]) + 1] = ":"
    THEN LET a == Min({b \in 1..Len(ReplyPrefixes) :
                          /\ Len(s) > Len(ReplyPrefixes[b])
                          /\ Lower(SubSeq(s, 1, Len(ReplyPrefixes[b]))) = ReplyPrefixes[b]
                          /\ s[Len(ReplyPrefixes[b]) + 1] = ":"})
             rest == Drop(s, Len(ReplyPrefixes[a]) + 1)
         IN  Drop(rest, WsPrefixLen(rest))
    ELSE s

\* A mutant of ThreadKey: the guard of line 314 is lost and a thread_id is
\* normalised like a subject.
ThreadKeyAlwaysStripped(email) ==
    StripReplyPrefix(
        IF Truthy(email.thread_id) THEN email.thread_id[1]
        ELSE IF email.subject = None THEN Unknown ELSE email.subject[1])

\* Lines 311-315: the key of the thread a mapping goes to.
ThreadKey(email) ==
    IF Truthy(email.thread_id) THEN email.thread_id[1]
    ELSE StripReplyPrefix(IF email.subject = None THEN Unknown ELSE email.subject[1])

\* The characters of a date string in code point order.
CodePointOrder == <<"+","-","0","1","2","3","4","5","6","7","8","9",":","T">>

Ord(c) == CHOOSE k \in 1..Len(CodePointOrder) : CodePointOrder[k] = c

\* a <= b for Python strings: by code point at the first difference, a
\* proper prefix first.
StrLeq(a, b) ==
    IF \E k \in 1..Min({Len(a), Len(b)}) : a[k] # b[k]
    THEN LET d == Min({k \in 1..Min({Len(a), Len(b)}) : a[k] # b[k]})
         IN  Ord(a[d]) < Ord(b[d])
    ELSE Len(a) <= Len(b)

\* A mutant of SortKey: a missing date sorts as the latest date.
SortKeyMissingLast(email) ==
    IF Truthy(email.date) THEN email.date[1]
    ELSE <<"9","9","9","9","-","9","9","-","9","9">>

\* Line 325: x.get('date') or '0000-00-00'
SortKey(email) ==
    IF Truthy(email.date) THEN email.date[1]
    ELSE <<"0","0","0","0","-","0","0","-","0","0">>

RECURSIVE SortByDateUnstable(_)
\* A mutant of SortByDate: an element goes before the elements of equal key,
\* so equal keys come out in reverse input order.
SortByDateUnstable(thread) ==
    IF thread = <<>> THEN <<>>
    ELSE LET sorted == SortByDateUnstable(SubSeq(thread, 1, Len(thread) - 1))
             last == thread[Len(thread)]
             n == Cardinality({k \in 1..Len(sorted) :
                      /\ StrLeq(SortKey(sorted[k]), SortKey(last))
                      /\ SortKey(sorted[k]) # SortKey(last)})
         IN  SubSeq(sorted, 1, n) \o <<last>> \o Drop(sorted, n)

RECURSIVE SortByDate(_)
\* list.sort(key=...) of lines 324-326: ascending and stable (an element goes
\* behind every element whose key is not greater).
SortByDate(thread) ==
    IF thread = <<>> THEN <<>>
    ELSE LET sorted == SortByDate(SubSeq(thread, 1, Len(thread) - 1))
             last == thread[Len(thread)]
             n == Cardinality({k \in 1..Len(sorted) : StrLeq(SortKey(sorted[k]), SortKey(last))})
         IN  SubSeq(sorted, 1, n) \o <<last>> \o Drop(sorted, n)

\* A call of group_by_thread (line 307).
GroupInit ==
    /\ emails \in SeqsUpTo(MappingPool, MaxGroupEmails)
    /\ email_no = 1
    /\ threads = <<>>
    /\ group_pc = "group"
    /\ CleanIdle /\ HtmlIdle /\ MsgIdle /\ FilterIdle

\* Lines 317-320: the mapping is appended to its thread, new or not.
Filed(found, email) ==
    [key \in DOMAIN found \cup {ThreadKey(email)} |->
        IF key = ThreadKey(email)
        THEN Append(IF key \in DOMAIN found THEN found[key] ELSE <<>>, email)
        ELSE found[key]]

\* Lines 309-320 on the next mapping.
FileEmail ==
    /\ group_pc = "group" /\ email_no <= Len(emails)
    /\ threads' = Filed(threads, emails[email_no])
    /\ email_no' = email_no + 1
    /\ UNCHANGED <<emails, group_pc>>
    /\ UNCHANGED <<cleanVars, htmlVars, msgVars, filterVars>>

\* Lines 323-328: every thread is sorted and the threads are returned.
SortThreads ==
    /\ group_pc = "group" /\ email_no > Len(emails)
    /\ threads' = [key \in DOMAIN threads |-> SortByDate(threads[key])]
    /\ group_pc' = "done"
    /\ UNCHANGED <<emails, email_no>>
    /\ UNCHANGED <<cleanVars, htmlVars, msgVars, filterVars>>

GroupNext ==
    \/ FileEmail
    \/ SortThreads

SpecGroup == GroupInit /\ [][GroupNext]_vars

-----------------------------------------------------------------------------
(* Claims about group_by_thread.                                           *)

InThread(email, key) ==
    key \in DOMAIN threads /\ \E k \in 1..Len(threads[key]) : threads[key][k] = email

SpecPrefixes == { <<"r","e",":">>, <<"f","w","d",":">>, <<"f","w",":">> }

RECURSIVE WithoutLeadingSpace(_)
WithoutLeadingSpace(s) ==
    IF s # <<>> /\ Head(s) \in Whitespace THEN WithoutLeadingSpace(Tail(s)) ELSE s

\* A subject as the specification normalises it: one leading 're:', 'fwd:'
\* or 'fw:' in any case, and the whitespace behind it, is cut off; the rest
\* keeps its case.
WithoutOnePrefix(subject) ==
    IF \E p \in SpecPrefixes : StartsWith(Lower(subject), p)
    THEN WithoutLeadingSpace(
             Drop(subject, Len(CHOOSE p \in SpecPrefixes : StartsWith(Lower(subject), p))))
    ELSE subject

\* The thread key as the specification puts it.
SpecThreadKey(email) ==
    IF Truthy(email.thread_id) THEN email.thread_id[1]
    ELSE IF email.subject = None THEN Unknown
    ELSE WithoutOnePrefix(email.subject[1])

Occurrences(email, list) == Cardinality({k \in 1..Len(list) : list[k] = email})

RECURSIVE TotalSize(_)
\* The sum of the sizes of the groups under the keys.
TotalSize(keys) ==
    IF keys = {} THEN 0
    ELSE LET key == CHOOSE key \in keys : TRUE
         IN  Len(threads[key]) + TotalSize(keys \ {key})

\* The mappings of a list that have the date of `email` (both undated, or the
\* same date string), in the order of the list: those of equal sort key.
WithDateOf(email, list) == SelectSeq(list, LAMBDA other : other.date = email.date)

\* The input mappings that are in the group under a key, in input order.
InputOf(key) == SelectSeq(emails, LAMBDA email : InThread(email, key))

\* C11: group_by_thread partitions its input: every input mapping is in
\* exactly one group, as often as it is in the input; no group is empty; the
\* sizes of the groups add up to the length of the input; mappings of equal
\* sort key are in a group in their input order.
C11_Partition ==
    group_pc = "done" =>
        /\ \A k \in 1..Len(emails) :
               /\ Cardinality({key \in DOMAIN threads : InThread(emails[k], key)}) = 1
               /\ \A key \in DOMAIN threads :
                      InThread(emails[k], key)
                      => Occurrences(emails[k], threads[key]) = Occurrences(emails[k], emails)
        /\ \A key \in DOMAIN threads : threads[key] # <<>>
        /\ TotalSize(DOMAIN threads) = Len(emails)
        /\ \A key \in DOMAIN threads :
               \A p \in 1..Len(threads[key]) :
                   WithDateOf(threads[key][p], threads[key])
                       = WithDateOf(threads[key][p], InputOf(key))

\* A returned grouping of three mappings of one thread and one date, the
\* second and the third the same mapping, the first another: the group holds
\* them in input order, the duplicate twice.
C11_Witness ==
    /\ group_pc = "done"
    /\ emails = << Mapping(Some(ReT), Some(FwX), Some(Date1)),
                   Mapping(Some(ReT), Some(Trade), Some(Date1)),
                   Mapping(Some(ReT), Some(Trade), Some(Date1)) >>
    /\ DOMAIN threads = {ReT}
    /\ threads[ReT] = emails

=============================================================================
